---------------------------- MODULE Spec2Model ----------------------------
(***************************************************************************)
(* A model of rust_wordle (src/src/main.rs): the word list built from the  *)
(* embedded corpus, the choice of the target word, the guessing loop with  *)
(* its two rejections, and the per-guess evaluation of the letters.        *)
(*                                                                         *)
(* Strings are sequences of characters; a character is a one-element name. *)
(* Positions of a word are 0..L-1 as in the source; word[i+1] reads the    *)
(* byte at position i.                                                     *)
(***************************************************************************)
EXTENDS Integers, Sequences, FiniteSets, TLC

VARIABLES
    all_words,            \* the embedded corpus, split at '\n' (main.rs:49, 207)
    possible_words,       \* Vec<String> of candidate words (main.rs:46)
    target_word,          \* the word to guess (main.rs:62)
    result,               \* GameResult (main.rs:53)
    target_letter_count,  \* HashMap<char,u8>, lives across rounds (main.rs:56)
    guesses,              \* tries counter (main.rs:68)
    pc,                   \* position of the single thread in wordle()
    line,                 \* the last feedback line written to stdout
    nAccepted,            \* history: inputs that passed both checks
    nMatched,             \* history: accepted inputs equal to the target
    lastAccepted          \* history: the last input that passed both checks

vars == <<all_words, possible_words, target_word, result, target_letter_count,
          guesses, pc, line, nAccepted, nMatched, lastAccepted>>

---------------------------------------------------------------------------
(* Configuration (main.rs:41-44) and the header skip of words_list.        *)

guess_tries == 6

guess_letters == 5

HeaderLines == 2

---------------------------------------------------------------------------
(* Characters.                                                             *)

LowerLetters == {"a", "c", "i", "k", "l", "m"}

UpperLetters == {"A", "C", "I", "K", "L", "M"}

\* U+212A KELVIN SIGN: not ASCII, three bytes in UTF-8, lowercases to 'k'.
KELVIN == "KELVIN"

\* U+00E9: not ASCII, two bytes in UTF-8, already lowercase.
EACUTE == "EACUTE"

\* char::is_whitespace, as used by str::trim
IsWhitespace(c) == c \in {" ", "\t", "\r"}

\* char::is_ascii_alphabetic
IsAsciiAlphabetic(c) == c \in LowerLetters \cup UpperLetters

\* the lowercase mapping of one character (str::to_lowercase, per char)
ToLowerChar(c) ==
    CASE c = "A" -> "a"
      [] c = "C" -> "c"
      [] c = "I" -> "i"
      [] c = "K" -> "k"
      [] c = "L" -> "l"
      [] c = "M" -> "m"
      [] c = KELVIN -> "k"
      [] OTHER -> c

\* number of UTF-8 bytes of one character
Utf8Len(c) ==
    CASE c = KELVIN -> 3
      [] c = EACUTE -> 2
      [] OTHER -> 1

---------------------------------------------------------------------------
(* String operations of the standard library, as the program uses them.    *)

RECURSIVE TrimStart(_)
TrimStart(s) ==
    IF s # <<>> /\ IsWhitespace(Head(s)) THEN TrimStart(Tail(s)) ELSE s

RECURSIVE TrimEnd(_)
TrimEnd(s) ==
    IF s # <<>> /\ IsWhitespace(s[Len(s)])
    THEN TrimEnd(SubSeq(s, 1, Len(s) - 1))
    ELSE s

\* str::trim
Trim(s) == TrimEnd(TrimStart(s))

\* str::to_lowercase
ToLowercase(s) == [i \in 1..Len(s) |-> ToLowerChar(s[i])]

\* str::len: the length in bytes
RECURSIVE ByteLen(_)
ByteLen(s) == IF s = <<>> THEN 0 ELSE Utf8Len(Head(s)) + ByteLen(Tail(s))

\* .chars().filter(|c| c == &letter).count()
CountIn(word, letter) == Cardinality({i \in 1..Len(word) : word[i] = letter})

\* .chars().any(|c| c == letter)
Contains(word, letter) == \E i \in 1..Len(word) : word[i] = letter

\* HashMap::new()
EmptyMap == [k \in {} |-> 0]

\* map.entry(k).or_insert(v): inserts only when k has no entry
OrInsert(m, k, v) == IF k \in DOMAIN m THEN m ELSE m @@ (k :> v)

\* *map.entry(k).or_insert(0) += 1
Increment(m, k) ==
    LET m1 == OrInsert(m, k, 0) IN [m1 EXCEPT ![k] = (@ + 1) % 256]

---------------------------------------------------------------------------
(* Word Source (main.rs:197-212).                                          *)

sanitize_wordNoLowercase(word) ==
    SelectSeq(Trim(word), IsAsciiAlphabetic)

sanitize_word(word) ==
    SelectSeq(ToLowercase(Trim(word)), IsAsciiAlphabetic)

\* .skip(n) of an iterator over the lines
Skip(lines, n) == SubSeq(lines, n + 1, Len(lines))

KeepLine(w) == ByteLen(w) = guess_letters

words_listSkipOne(corpus) ==
    LET sanitized == [i \in 1..Len(Skip(corpus, HeaderLines - 1)) |->
                        sanitize_word(Skip(corpus, HeaderLines - 1)[i])]
    IN  SelectSeq(sanitized, KeepLine)

words_list(corpus) ==
    LET sanitized == [i \in 1..Len(Skip(corpus, HeaderLines)) |->
                        sanitize_word(Skip(corpus, HeaderLines)[i])]
    IN  SelectSeq(sanitized, KeepLine)

---------------------------------------------------------------------------
(* Guess evaluation (main.rs:108-168).  A round's working state is the     *)
(* record [tlc, lc, cor]: target_letter_count, letter_count, correctness.  *)

Correct == "Correct"

CorrectLetter == "CorrectLetter"

Incorrect == "Incorrect"

TallyStepCountsInput(i, input, target, tlc) ==
    LET letter == input[i + 1]
        count  == CountIn(input, letter)
    IN  OrInsert(tlc, letter, count % 256)

\* main.rs:110-114: one turn of the loop that records the letters of the input
TallyStep(i, input, target, tlc) ==
    LET letter == input[i + 1]
        count  == CountIn(target, letter)
    IN  OrInsert(tlc, letter, count % 256)

RECURSIVE TallyLoop(_, _, _, _, _)
TallyLoop(i, n, input, target, tlc) ==
    IF i >= n THEN tlc
    ELSE TallyLoop(i + 1, n, input, target, TallyStep(i, input, target, tlc))

MarkCorrectStepNoCount(i, input, target, st) ==
    LET letter == input[i + 1]
    IN  IF letter = target[i + 1]
        THEN [st EXCEPT !.cor = OrInsert(st.cor, i, Correct)]
        ELSE st

MarkCorrectStepShifted(i, input, target, st) ==
    LET letter == input[i + 1]
    IN  IF letter = target[((i + 1) % Len(target)) + 1]
        THEN [st EXCEPT !.lc  = Increment(st.lc, letter),
                        !.cor = OrInsert(st.cor, i, Correct)]
        ELSE st

\* main.rs:119-125: one turn of the loop that marks correctly placed letters
MarkCorrectStep(i, input, target, st) ==
    LET letter == input[i + 1]
    IN  IF letter = target[i + 1]
        THEN [st EXCEPT !.lc  = Increment(st.lc, letter),
                        !.cor = OrInsert(st.cor, i, Correct)]
        ELSE st

RECURSIVE MarkCorrectLoop(_, _, _, _, _)
MarkCorrectLoop(i, n, input, target, st) ==
    IF i >= n THEN st
    ELSE MarkCorrectLoop(i + 1, n, input, target,
                         MarkCorrectStep(i, input, target, st))

MarkExistingStepNoCap(i, input, target, st) ==
    LET letter == input[i + 1]
    IN  IF Contains(target, letter)
        THEN IF letter # target[i + 1]
             THEN [st EXCEPT !.lc  = Increment(st.lc, letter),
                             !.cor = OrInsert(st.cor, i, CorrectLetter)]
             ELSE [st EXCEPT !.cor = OrInsert(st.cor, i, Incorrect)]
        ELSE [st EXCEPT !.cor = OrInsert(st.cor, i, Incorrect)]

MarkExistingStepAbsentMarked(i, input, target, st) ==
    LET letter == input[i + 1]
    IN  IF Contains(target, letter)
        THEN LET lc1  == OrInsert(st.lc, letter, 0)
                 tlc1 == OrInsert(st.tlc, letter, 0)
             IN  IF lc1[letter] < tlc1[letter] /\ letter # target[i + 1]
                 THEN [tlc |-> tlc1,
                       lc  |-> Increment(lc1, letter),
                       cor |-> OrInsert(st.cor, i, CorrectLetter)]
                 ELSE [tlc |-> tlc1,
                       lc  |-> lc1,
                       cor |-> OrInsert(st.cor, i, Incorrect)]
        ELSE [st EXCEPT !.cor = OrInsert(st.cor, i, CorrectLetter)]

MarkExistingStepConsumesTally(i, input, target, st) ==
    LET letter == input[i + 1]
    IN  IF Contains(target, letter)
        THEN LET lc1  == OrInsert(st.lc, letter, 0)
                 tlc1 == OrInsert(st.tlc, letter, 0)
             IN  IF lc1[letter] < tlc1[letter] /\ letter # target[i + 1]
                 THEN [tlc |-> [tlc1 EXCEPT ![letter] = @ - 1],
                       lc  |-> Increment(lc1, letter),
                       cor |-> OrInsert(st.cor, i, CorrectLetter)]
                 ELSE [tlc |-> tlc1,
                       lc  |-> lc1,
                       cor |-> OrInsert(st.cor, i, Incorrect)]
        ELSE [st EXCEPT !.cor = OrInsert(st.cor, i, Incorrect)]

MarkExistingStepOffByOne(i, input, target, st) ==
    LET letter == input[i + 1]
    IN  IF Contains(target, letter)
        THEN LET lc1  == OrInsert(st.lc, letter, 0)
                 tlc1 == OrInsert(st.tlc, letter, 0)
             IN  IF lc1[letter] <= tlc1[letter] /\ letter # target[i + 1]
                 THEN [tlc |-> tlc1,
                       lc  |-> Increment(lc1, letter),
                       cor |-> OrInsert(st.cor, i, CorrectLetter)]
                 ELSE [tlc |-> tlc1,
                       lc  |-> lc1,
                       cor |-> OrInsert(st.cor, i, Incorrect)]
        ELSE [st EXCEPT !.cor = OrInsert(st.cor, i, Incorrect)]

\* main.rs:130-153: one turn of the loop that marks the remaining letters
MarkExistingStep(i, input, target, st) ==
    LET letter == input[i + 1]
    IN  IF Contains(target, letter)
        THEN LET lc1  == OrInsert(st.lc, letter, 0)
                 tlc1 == OrInsert(st.tlc, letter, 0)
             IN  IF lc1[letter] < tlc1[letter] /\ letter # target[i + 1]
                 THEN [tlc |-> tlc1,
                       lc  |-> Increment(lc1, letter),
                       cor |-> OrInsert(st.cor, i, CorrectLetter)]
                 ELSE [tlc |-> tlc1,
                       lc  |-> lc1,
                       cor |-> OrInsert(st.cor, i, Incorrect)]
        ELSE [st EXCEPT !.cor = OrInsert(st.cor, i, Incorrect)]

RECURSIVE MarkExistingLoop(_, _, _, _, _)
MarkExistingLoop(i, n, input, target, st) ==
    IF i >= n THEN st
    ELSE MarkExistingLoop(i + 1, n, input, target,
                          MarkExistingStep(i, input, target, st))

\* main.rs:156-168: printing reads each mark, defaulting a missing one
RECURSIVE RenderLoop(_, _, _)
RenderLoop(i, n, cor) ==
    IF i >= n THEN cor
    ELSE RenderLoop(i + 1, n, OrInsert(cor, i, Incorrect))

\* main.rs:77-82 and 108-168: the fresh maps of a round and the four loops
Evaluate(input, target, tlc) ==
    LET n    == Len(input)
        tlc1 == TallyLoop(0, n, input, target, tlc)
        st0  == [tlc |-> tlc1, lc |-> EmptyMap, cor |-> EmptyMap]
        st1  == MarkCorrectLoop(0, n, input, target, st0)
        st2  == MarkExistingLoop(0, n, input, target, st1)
    IN  [tlc |-> st2.tlc, cor |-> RenderLoop(0, n, st2.cor)]

\* the coloured line of main.rs:156-169: the letters and, per position, the mark
GuessLine(input, cor) ==
    [msg   |-> "guess",
     word  |-> input,
     marks |-> [i \in 1..Len(input) |-> cor[i - 1]]]

\* a line of plain text
TextLine(msg, word) == [msg |-> msg, word |-> word, marks |-> <<>>]

\* main.rs:215-229: the colour of each letter of the alphabet line: red for a
\* tried letter that is not in the target, blue for one that is, plain otherwise
print_tried_letters(tlc) ==
    [letter \in LowerLetters |->
        IF letter \in DOMAIN tlc /\ tlc[letter] = 0 THEN "red"
        ELSE IF letter \in DOMAIN tlc /\ tlc[letter] > 0 THEN "blue"
        ELSE "plain"]

---------------------------------------------------------------------------
(* Bounds and the finite sets the inputs are drawn from.                   *)

\* body lines of a corpus of the game
MaxBody == 3

\* characters of a corpus line of the word-source specification
MaxLineLen == 6

\* letters of the words of the evaluator specification
NumLetters == 3

SeqsUpTo(S, n) == UNION {[1..k -> S] : k \in 0..n}

lilac == <<"l", "i", "l", "a", "c">>

llama == <<"l", "l", "a", "m", "a">>

click == <<"c", "l", "i", "c", "k">>

\* corpus lines of the game: a plain word, a word to trim and lowercase, a
\* word whose last character is the Kelvin sign, a word that is too short
LinePool ==
    { lilac,
      <<" ", "L", "l", "a", "m", "a">>,
      <<"c", "l", "i", "c", KELVIN>>,
      <<"l", "i", "l", "a">> }

\* the first two lines of a corpus: a title and a blank line, or two words
HeaderChoices == { << <<"a", " ", "c">>, <<>> >>, <<lilac, llama>> }

Corpora ==
    {h \o b : h \in HeaderChoices, b \in SeqsUpTo(LinePool, MaxBody)}
        \cup {<<>>, <<lilac>>}

\* lines typed by the player, as read up to the '\n'
InputPool ==
    { lilac,
      <<" ", "L", "L", "A", "M", "A", "\r">>,
      <<"c", "l", "i", "c", KELVIN>>,
      <<"l", "i", "l", "a">>,
      <<"l", "i", "l", "a", "c", "c">>,
      <<"a", EACUTE, "a", "a">>,
      <<"l", "i", "l", "a", EACUTE>>,
      <<"l", "i", "1", "a", "c">>,
      <<"m", "a", "m", "m", "a">> }

LineChars == {"a", "L", " ", "1", KELVIN}

WordsCorpora ==
    {h \o <<l>> : h \in HeaderChoices, l \in SeqsUpTo(LineChars, MaxLineLen)}
        \cup HeaderChoices \cup {<<>>, <<lilac>>}

LetterOrder == <<"a", "l", "i", "c", "m", "k">>

EvalLetters == {LetterOrder[i] : i \in 1..NumLetters}

EvalWords == [1..guess_letters -> EvalLetters]

---------------------------------------------------------------------------
(* The game (main.rs:39-191).                                              *)

Elements(seq) == {seq[i] : i \in 1..Len(seq)}

NoLine == TextLine("none", <<>>)

\* main.rs:53-57, 68: the state before the word list is built
Init ==
    /\ all_words \in Corpora
    /\ possible_words = <<>>
    /\ target_word = <<>>
    /\ result = "Failure"
    /\ target_letter_count = EmptyMap
    /\ guesses = 0
    /\ pc = "start"
    /\ line = NoLine
    /\ nAccepted = 0
    /\ nMatched = 0
    /\ lastAccepted = <<>>

StartupNoPanic ==
    /\ pc = "start"
    /\ possible_words' = words_list(all_words)
    /\ \/ /\ possible_words' = <<>>
          /\ pc' = "loop"
          /\ target_word' = target_word
       \/ /\ possible_words' # <<>>
          /\ target_word' \in Elements(possible_words')
          /\ pc' = "loop"
    /\ UNCHANGED <<all_words, result, target_letter_count, guesses, line,
                   nAccepted, nMatched, lastAccepted>>

\* main.rs:46-71: build the word list and choose the target; choose() of an
\* empty list is None and unwrap() panics
Startup ==
    /\ pc = "start"
    /\ possible_words' = words_list(all_words)
    /\ \/ /\ possible_words' = <<>>
          /\ pc' = "panicked"
          /\ target_word' = target_word
       \/ /\ possible_words' # <<>>
          /\ target_word' \in Elements(possible_words')
          /\ pc' = "loop"
    /\ UNCHANGED <<all_words, result, target_letter_count, guesses, line,
                   nAccepted, nMatched, lastAccepted>>

\* main.rs:74-86: the loop test, the increment and the prompt
Prompt ==
    /\ pc = "loop"
    /\ guesses < guess_tries
    /\ guesses' = guesses + 1
    /\ pc' = "read"
    /\ UNCHANGED <<all_words, possible_words, target_word, result,
                   target_letter_count, line, nAccepted, nMatched,
                   lastAccepted>>

\* main.rs:85: the try number written in the prompt "(n/guess_tries)> "
PromptShown == guesses

\* main.rs:92: the line read, trimmed and lowercased
Normalize(raw) == ToLowercase(Trim(raw))

IsPossibleAnyLine(input) == TRUE

\* main.rs:102: possible_words.into_iter().any(|w| w == &input)
IsPossible(input) == \E k \in 1..Len(possible_words) : possible_words[k] = input

RejectLengthNoRefund(raw) ==
    /\ pc = "read"
    /\ ByteLen(Normalize(raw)) # guess_letters
    /\ line' = TextLine("length", <<>>)
    /\ pc' = "loop"
    /\ UNCHANGED <<all_words, possible_words, target_word, result, guesses,
                   target_letter_count, nAccepted, nMatched, lastAccepted>>

\* main.rs:95-99: wrong length, the try is refunded
RejectLength(raw) ==
    /\ pc = "read"
    /\ ByteLen(Normalize(raw)) # guess_letters
    /\ guesses' = guesses - 1
    /\ line' = TextLine("length", <<>>)
    /\ pc' = "loop"
    /\ UNCHANGED <<all_words, possible_words, target_word, result,
                   target_letter_count, nAccepted, nMatched, lastAccepted>>

RejectInvalidTallies(raw) ==
    /\ pc = "read"
    /\ ByteLen(Normalize(raw)) = guess_letters
    /\ ~IsPossible(Normalize(raw))
    /\ guesses' = guesses - 1
    /\ target_letter_count' =
          TallyLoop(0, Len(Normalize(raw)), Normalize(raw), target_word,
                    target_letter_count)
    /\ line' = TextLine("invalid", <<>>)
    /\ pc' = "loop"
    /\ UNCHANGED <<all_words, possible_words, target_word, result,
                   nAccepted, nMatched, lastAccepted>>

RejectInvalidNoRefund(raw) ==
    /\ pc = "read"
    /\ ByteLen(Normalize(raw)) = guess_letters
    /\ ~IsPossible(Normalize(raw))
    /\ line' = TextLine("invalid", <<>>)
    /\ pc' = "loop"
    /\ UNCHANGED <<all_words, possible_words, target_word, result, guesses,
                   target_letter_count, nAccepted, nMatched, lastAccepted>>

\* main.rs:102-106: not a word of the list, the try is refunded
RejectInvalid(raw) ==
    /\ pc = "read"
    /\ ByteLen(Normalize(raw)) = guess_letters
    /\ ~IsPossible(Normalize(raw))
    /\ guesses' = guesses - 1
    /\ line' = TextLine("invalid", <<>>)
    /\ pc' = "loop"
    /\ UNCHANGED <<all_words, possible_words, target_word, result,
                   target_letter_count, nAccepted, nMatched, lastAccepted>>

EvaluatingNoBreak(raw) ==
    /\ pc = "read"
    /\ ByteLen(Normalize(raw)) = guess_letters
    /\ IsPossible(Normalize(raw))
    /\ LET input == Normalize(raw)
           ev    == Evaluate(input, target_word, target_letter_count)
       IN  /\ target_letter_count' = ev.tlc
           /\ line' = GuessLine(input, ev.cor)
           /\ nAccepted' = nAccepted + 1
           /\ lastAccepted' = input
           /\ pc' = "loop"
           /\ IF input = target_word
              THEN /\ result' = "Success"
                   /\ nMatched' = nMatched + 1
              ELSE /\ result' = result
                   /\ nMatched' = nMatched
    /\ UNCHANGED <<all_words, possible_words, target_word, guesses>>

EvaluatingNoWinOnLastTry(raw) ==
    /\ pc = "read"
    /\ ByteLen(Normalize(raw)) = guess_letters
    /\ IsPossible(Normalize(raw))
    /\ LET input == Normalize(raw)
           ev    == Evaluate(input, target_word, target_letter_count)
       IN  /\ target_letter_count' = ev.tlc
           /\ line' = GuessLine(input, ev.cor)
           /\ nAccepted' = nAccepted + 1
           /\ lastAccepted' = input
           /\ IF input = target_word /\ guesses < guess_tries
              THEN /\ result' = "Success"
                   /\ pc' = "final"
                   /\ nMatched' = nMatched + 1
              ELSE /\ result' = result
                   /\ pc' = "loop"
                   /\ nMatched' = IF input = target_word THEN nMatched + 1
                                  ELSE nMatched
    /\ UNCHANGED <<all_words, possible_words, target_word, guesses>>

\* main.rs:108-182: evaluate and print the guess, then win or go on
Evaluating(raw) ==
    /\ pc = "read"
    /\ ByteLen(Normalize(raw)) = guess_letters
    /\ IsPossible(Normalize(raw))
    /\ LET input == Normalize(raw)
           ev    == Evaluate(input, target_word, target_letter_count)
       IN  /\ target_letter_count' = ev.tlc
           /\ line' = GuessLine(input, ev.cor)
           /\ nAccepted' = nAccepted + 1
           /\ lastAccepted' = input
           /\ IF input = target_word
              THEN /\ result' = "Success"
                   /\ pc' = "final"
                   /\ nMatched' = nMatched + 1
              ELSE /\ result' = result
                   /\ pc' = "loop"
                   /\ nMatched' = nMatched
    /\ UNCHANGED <<all_words, possible_words, target_word, guesses>>

\* main.rs:89-182: one line of input
ReadGuess(raw) == RejectLength(raw) \/ RejectInvalid(raw) \/ Evaluating(raw)

FinalizeAlwaysReveals ==
    /\ \/ pc = "final"
       \/ pc = "loop" /\ ~(guesses < guess_tries)
    /\ line' = TextLine("word_was", target_word)
    /\ pc' = "done"
    /\ UNCHANGED <<all_words, possible_words, target_word, result,
                   target_letter_count, guesses, nAccepted, nMatched,
                   lastAccepted>>

\* main.rs:74, 183-190: the loop is left (test false, or break) and the game
\* is finalized
Finalize ==
    /\ \/ pc = "final"
       \/ pc = "loop" /\ ~(guesses < guess_tries)
    /\ line' = IF result = "Failure" THEN TextLine("word_was", target_word)
               ELSE line
    /\ pc' = "done"
    /\ UNCHANGED <<all_words, possible_words, target_word, result,
                   target_letter_count, guesses, nAccepted, nMatched,
                   lastAccepted>>

Next ==
    \/ Startup
    \/ Prompt
    \/ \E raw \in InputPool : ReadGuess(raw)
    \/ Finalize

Spec == Init /\ [][Next]_vars

\* the program has stopped: it returned from wordle() or panicked at startup
Stopped == pc \in {"done", "panicked"}

\* the player does not type rejected lines for ever: a line that passes both
\* checks is read again and again, until the program stops
PlayerKeepsGuessing ==
    \/ <>[]Stopped
    \/ []<><<\E raw \in InputPool : Evaluating(raw)>>_vars

\* The game with its scheduling: the single thread takes its next step when
\* it is not blocked in the read, and the player keeps guessing.
SpecLive ==
    /\ Spec
    /\ WF_vars(Startup)
    /\ WF_vars(Prompt)
    /\ WF_vars(Finalize)
    /\ PlayerKeepsGuessing

---------------------------------------------------------------------------
(* The word source alone, over corpora whose body line is any short        *)
(* sequence of characters.                                                 *)

InitWords ==
    /\ all_words \in WordsCorpora
    /\ possible_words = <<>>
    /\ target_word = <<>>
    /\ result = "Failure"
    /\ target_letter_count = EmptyMap
    /\ guesses = 0
    /\ pc = "start"
    /\ line = NoLine
    /\ nAccepted = 0
    /\ nMatched = 0
    /\ lastAccepted = <<>>

NextWords == Startup

SpecWords == InitWords /\ [][NextWords]_vars

---------------------------------------------------------------------------
(* The evaluation alone, over every target and every guess of L letters.   *)

InitEval ==
    /\ all_words = <<>>
    /\ possible_words = <<>>
    /\ target_word \in EvalWords
    /\ result = "Failure"
    /\ target_letter_count = EmptyMap
    /\ guesses = 0
    /\ pc = "eval"
    /\ line = NoLine
    /\ nAccepted = 0
    /\ nMatched = 0
    /\ lastAccepted = <<>>

\* main.rs:108-169 applied to one guess
EvalGuess(input) ==
    /\ pc = "eval"
    /\ LET ev == Evaluate(input, target_word, target_letter_count)
       IN  /\ target_letter_count' = ev.tlc
           /\ line' = GuessLine(input, ev.cor)
    /\ pc' = "evaluated"
    /\ lastAccepted' = input
    /\ UNCHANGED <<all_words, possible_words, target_word, result, guesses,
                   nAccepted, nMatched>>

NextEval == \E input \in EvalWords : EvalGuess(input)

SpecEval == InitEval /\ [][NextEval]_vars

---------------------------------------------------------------------------
(* Properties of the evaluation.                                           *)

Min(a, b) == IF a <= b THEN a ELSE b

Positions == 0..(guess_letters - 1)

\* the mark printed at position i of the guess line
MarkAt(i) == line.marks[i + 1]

\* positions of the guess line that hold letter c and are not marked Incorrect
MarkedPositions(c) ==
    {i \in Positions : line.word[i + 1] = c /\ MarkAt(i) # Incorrect}

GuessShown == line.msg = "guess"

LilacLlamaShown == GuessShown /\ target_word = lilac /\ line.word = llama

\* C1 as stated: target "lilac", accepted guess "llama": the marks are
\* Correct, Absent, PresentElsewhere, Absent, Absent.
C1_AsStated ==
    LilacLlamaShown =>
        line.marks = <<Correct, Incorrect, CorrectLetter, Incorrect, Incorrect>>

\* C1 amended: target "lilac", accepted guess "llama": the marks are Correct,
\* PresentElsewhere, PresentElsewhere, Absent, Absent ("lilac" has two 'l',
\* of which position 0 consumes one, and one 'a').
C1_LilacLlama ==
    LilacLlamaShown =>
        line.marks = <<Correct, CorrectLetter, CorrectLetter, Incorrect, Incorrect>>

\* "llama" was evaluated against "lilac" after another guess had been accepted
C1_Witness == LilacLlamaShown /\ nAccepted >= 2

\* C2: for every letter c, the positions of the guess that hold c and are
\* marked Correct or PresentElsewhere number min(occurrences of c in the
\* guess, occurrences of c in the target); a position that matches the target
\* is marked Correct, so of two occurrences against one it is the matching
\* one that is marked.
C2_MarkedCount ==
    GuessShown =>
        /\ \A c \in LowerLetters :
              Cardinality(MarkedPositions(c)) =
                  Min(CountIn(line.word, c), CountIn(target_word, c))
        /\ \A i \in Positions :
              (MarkAt(i) = Correct) <=> (line.word[i + 1] = target_word[i + 1])
        /\ \A c \in LowerLetters :
              (CountIn(line.word, c) = 2 /\ CountIn(target_word, c) = 1) =>
                  \E i \in Positions :
                      /\ MarkedPositions(c) = {i}
                      /\ (\E j \in Positions :
                              line.word[j + 1] = c /\ target_word[j + 1] = c)
                            => MarkAt(i) = Correct

\* a letter twice in the guess and once in the target, the second occurrence
\* in the right place: the first is Absent, the second Correct
C2_Witness ==
    /\ GuessShown
    /\ \E c \in LowerLetters : \E i, j \in Positions :
          /\ i < j
          /\ CountIn(line.word, c) = 2
          /\ CountIn(target_word, c) = 1
          /\ line.word[i + 1] = c
          /\ line.word[j + 1] = c
          /\ target_word[j + 1] = c
          /\ MarkAt(i) = Incorrect
          /\ MarkAt(j) = Correct

\* C3: a guess equal to the target is marked Correct at every position.
C3_AllCorrect ==
    (GuessShown /\ line.word = target_word) =>
        \A i \in Positions : MarkAt(i) = Correct

\* a guess equal to a target of three different letters was evaluated
C3_Witness ==
    /\ GuessShown
    /\ line.word = target_word
    /\ Cardinality(Elements(target_word)) >= 3
    /\ \A i \in Positions : MarkAt(i) = Correct

NoCommonLetter == Elements(line.word) \cap Elements(target_word) = {}

\* C4: a guess with no letter in common with the target is marked Absent at
\* every position.
C4_AllAbsent ==
    (GuessShown /\ NoCommonLetter) =>
        \A i \in Positions : MarkAt(i) = Incorrect

\* a guess of two different letters, none of them in the target, was evaluated
C4_Witness ==
    /\ GuessShown
    /\ NoCommonLetter
    /\ Cardinality(Elements(line.word)) >= 2
    /\ \A i \in Positions : MarkAt(i) = Incorrect

---------------------------------------------------------------------------
(* Properties of the game loop.                                            *)

\* the game will prompt again: the loop test succeeds at the loop head
PromptsAgain == pc' = "loop" /\ guesses' < guess_tries

\* the increment of main.rs:75 is undone and no try is counted
TryRefunded ==
    /\ guesses' = guesses - 1
    /\ nAccepted' = nAccepted
    /\ guesses' = nAccepted'

\* C5: a line whose number of characters after trimming is not L is rejected:
\* the tries used are what they were before the prompt, and the game prompts
\* again.
C5_LengthRejected ==
    [][\A raw \in InputPool :
          (Len(Trim(raw)) # guess_letters /\ ReadGuess(raw)) =>
              (TryRefunded /\ PromptsAgain /\ line'.msg \in {"length", "invalid"})
      ]_vars

\* a line of the wrong length was rejected when one try was left
C5_Witness ==
    /\ line.msg = "length"
    /\ pc = "loop"
    /\ guesses = guess_tries - 1
    /\ nAccepted = guess_tries - 1

HasNonLetter(s) == \E i \in 1..Len(s) : s[i] \notin LowerLetters

\* C6: a line of L characters that, trimmed and lowercased, is not in the word
\* list (so any line with a character that is not a letter) is rejected: the
\* tries used are what they were before the prompt, and the game prompts again.
C6_InvalidRejected ==
    [][\A raw \in InputPool :
          (/\ Len(Normalize(raw)) = guess_letters
           /\ \/ Normalize(raw) \notin Elements(possible_words)
              \/ HasNonLetter(Normalize(raw))
           /\ ReadGuess(raw)) =>
              (TryRefunded /\ PromptsAgain /\ line'.msg \in {"length", "invalid"})
      ]_vars

\* a line that is no word of the list was rejected when one try was left
C6_Witness ==
    /\ line.msg = "invalid"
    /\ pc = "loop"
    /\ guesses = guess_tries - 1
    /\ nAccepted = guess_tries - 1

\* C7: when the guess_tries-th accepted guess is the target, the result is
\* Success and "The word was" is not printed.
C7_WinOnLastTry ==
    (nAccepted = guess_tries /\ lastAccepted = target_word) =>
        /\ result = "Success"
        /\ pc \in {"final", "done"}
        /\ line = GuessLine(target_word, [i \in Positions |-> Correct])

\* the game ended after a win on the last try, with tries refunded on the way
C7_Witness ==
    /\ pc = "done"
    /\ nAccepted = guess_tries
    /\ lastAccepted = target_word
    /\ result = "Success"
    /\ Cardinality(DOMAIN target_letter_count) > Cardinality(Elements(target_word))

\* C8: the game ends with Failure, and prints the target, exactly when
\* guess_tries guesses were accepted and none was the target; it ends with
\* Success exactly when the last accepted guess was the target, and then the
\* target is not printed as a loss.
C8_EndResult ==
    pc = "done" =>
        /\ (result = "Failure") <=> (nAccepted = guess_tries /\ nMatched = 0)
        /\ (result = "Success") <=> (nAccepted >= 1 /\ lastAccepted = target_word)
        /\ (result = "Failure") <=> (line = TextLine("word_was", target_word))
        /\ (result = "Success") => (line.msg = "guess" /\ line.word = target_word)

\* the game ended with a loss
C8_Witness ==
    /\ pc = "done"
    /\ result = "Failure"
    /\ nAccepted = guess_tries
    /\ line = TextLine("word_was", target_word)

---------------------------------------------------------------------------
(* Properties of the word source.                                          *)

IsLowerWord(w) ==
    Len(w) = guess_letters /\ \A i \in 1..Len(w) : w[i] \in LowerLetters

\* C9: every word of the candidate list, and so the target, has exactly L
\* characters, all of them lowercase ASCII letters.
C9_WordShape ==
    /\ \A k \in 1..Len(possible_words) : IsLowerWord(possible_words[k])
    /\ pc = "loop" =>
          (target_word \in Elements(possible_words) /\ IsLowerWord(target_word))

\* a target was chosen from a line that holds an uppercase letter and a space
C9_Witness ==
    /\ pc = "loop"
    /\ Len(all_words) = HeaderLines + 1
    /\ {"L", " "} \subseteq Elements(all_words[HeaderLines + 1])
    /\ target_word = possible_words[1]

BodyLines == (HeaderLines + 1)..Len(all_words)

IsCleanLine(l) == IsLowerWord(Trim(l))

\* C10 as stated: the candidates are the corpus lines after the header that
\* are, up to surrounding whitespace, lowercase words of L letters; a line with
\* any other character contributes nothing.
C10_AsStated ==
    pc # "start" =>
        /\ \A k \in 1..Len(possible_words) :
              \E i \in BodyLines :
                  IsCleanLine(all_words[i]) /\ Trim(all_words[i]) = possible_words[k]
        /\ Len(possible_words) =
              Cardinality({i \in BodyLines : IsCleanLine(all_words[i])})

BecomesLetter(c) == ToLowerChar(c) \in LowerLetters

\* the characters of a line that are letters once lowercased, lowercased
LettersOf(l) ==
    LET kept == SelectSeq(l, BecomesLetter)
    IN  [i \in 1..Len(kept) |-> ToLowerChar(kept[i])]

HasL(w) == Len(w) = guess_letters

\* C10 amended: each corpus line after the two header lines is reduced to its
\* letters, lowercased and in order (whitespace, digits and every other
\* character are deleted), and the candidate list holds, in corpus order,
\* those reductions that have exactly L letters.
C10_LettersOfLines ==
    pc # "start" =>
        IF Len(all_words) <= HeaderLines
        THEN possible_words = <<>>
        ELSE possible_words =
                SelectSeq([i \in 1..(Len(all_words) - HeaderLines) |->
                              LettersOf(all_words[i + HeaderLines])], HasL)

\* a line that is not a lowercase word gave a candidate
C10_Witness ==
    /\ pc = "loop"
    /\ Len(all_words) = HeaderLines + 1
    /\ ~IsCleanLine(all_words[HeaderLines + 1])
    /\ possible_words # <<>>

---------------------------------------------------------------------------
(* Startup with an empty candidate list.                                   *)

\* no line after the two header lines reduces to a word of L letters
NoBodyWord ==
    \A i \in BodyLines : Len(LettersOf(all_words[i])) # guess_letters

\* a header line is a word of L letters
HeaderHoldsWord ==
    /\ Len(all_words) >= HeaderLines
    /\ \E i \in 1..HeaderLines : IsCleanLine(all_words[i])

\* C11: when no line after the two header lines gives a candidate word, the
\* program panics at startup: no target is chosen, no prompt is written and no
\* guess is read or evaluated.
C11_EmptyListPanics ==
    (pc # "start" /\ NoBodyWord) =>
        /\ pc = "panicked"
        /\ possible_words = <<>>
        /\ target_word = <<>>
        /\ guesses = 0
        /\ nAccepted = 0
        /\ line = NoLine
        /\ target_letter_count = EmptyMap

\* the program panicked on a corpus whose only words are in the header lines
\* and whose body holds a line that is too short
C11_Witness ==
    /\ pc = "panicked"
    /\ HeaderHoldsWord
    /\ Len(all_words) > HeaderLines

---------------------------------------------------------------------------
(* The tried letters.                                                      *)

\* a step that accepts a guess
AcceptStep == nAccepted' = nAccepted + 1

\* the status of a letter in the alphabet line
Status(c) ==
    CASE print_tried_letters(target_letter_count)[c] = "red"  -> "unused"
      [] print_tried_letters(target_letter_count)[c] = "blue" -> "used"
      [] OTHER -> "unknown"

\* C12: a letter has no tally entry (unknown) until a guess that holds it is
\* accepted; from then on its entry is the number of its occurrences in the
\* target (unused when 0, used when above 0); an entry is never changed or
\* removed.
C12_TriedLetters ==
    /\ [](pc = "start" => target_letter_count = EmptyMap)
    /\ [](\A c \in LowerLetters :
            /\ c \in DOMAIN target_letter_count =>
                  target_letter_count[c] = CountIn(target_word, c)
            /\ Status(c) = "unknown" <=> c \notin DOMAIN target_letter_count
            /\ Status(c) = "unused" <=>
                  (c \in DOMAIN target_letter_count /\ ~Contains(target_word, c))
            /\ Status(c) = "used" <=>
                  (c \in DOMAIN target_letter_count /\ Contains(target_word, c)))
    /\ [][/\ \A c \in DOMAIN target_letter_count :
                /\ c \in DOMAIN target_letter_count'
                /\ target_letter_count'[c] = target_letter_count[c]
          /\ IF AcceptStep
             THEN DOMAIN target_letter_count' =
                      DOMAIN target_letter_count \cup Elements(lastAccepted')
             ELSE target_letter_count' = target_letter_count
         ]_vars

\* after two accepted guesses and a rejected line, a letter is used, another
\* unused and a third still unknown
C12_Witness ==
    /\ nAccepted >= 2
    /\ line.msg = "invalid"
    /\ \E c, d, e \in LowerLetters :
          Status(c) = "used" /\ Status(d) = "unused" /\ Status(e) = "unknown"

---------------------------------------------------------------------------
(* The reference two-pass evaluation.                                      *)

\* pass 1: the positions where guess and target agree
RefMatches(guess, target) == {i \in Positions : guess[i + 1] = target[i + 1]}

\* the occurrences of each letter of the target that pass 1 did not consume
RefPool(guess, target) ==
    [c \in Elements(target) |->
        CountIn(target, c)
            - Cardinality({i \in RefMatches(guess, target) : guess[i + 1] = c})]

\* pass 2: the other positions from left to right, against the pool
RECURSIVE RefScan(_, _, _, _, _)
RefScan(i, guess, target, pool, marks) ==
    IF i >= guess_letters THEN marks
    ELSE LET c == guess[i + 1]
         IN  IF i \in RefMatches(guess, target)
             THEN RefScan(i + 1, guess, target, pool, Append(marks, Correct))
             ELSE IF c \in DOMAIN pool /\ pool[c] > 0
             THEN RefScan(i + 1, guess, target, [pool EXCEPT ![c] = @ - 1],
                          Append(marks, CorrectLetter))
             ELSE RefScan(i + 1, guess, target, pool, Append(marks, Incorrect))

Reference(guess, target) ==
    RefScan(0, guess, target, RefPool(guess, target), <<>>)

\* C13: the marks of an evaluated guess are, position by position, those of
\* the reference two-pass algorithm.
C13_MatchesReference ==
    GuessShown => line.marks = Reference(line.word, target_word)

\* a guess whose marks hold all three kinds, with an occurrence of a letter of
\* the target marked Absent because the pool was used up
C13_Witness ==
    /\ GuessShown
    /\ \E i, j, k \in Positions :
          /\ MarkAt(i) = Correct
          /\ MarkAt(j) = CorrectLetter
          /\ MarkAt(k) = Incorrect
          /\ Contains(target_word, line.word[k + 1])

---------------------------------------------------------------------------
(* Evaluation and the rounds before it.                                    *)

\* the marks of a guess evaluated in the first round, with an empty tally
FirstRoundMarks(guess) ==
    GuessLine(guess, Evaluate(guess, target_word, EmptyMap).cor).marks

\* C14: the marks of an accepted guess depend on the guess and the target
\* alone: they are those of the same guess evaluated in the first round,
\* whatever was accepted or rejected before, though the tally of the earlier
\* rounds is still there.
C14_SameMarksEveryRound ==
    GuessShown => line.marks = FirstRoundMarks(line.word)

\* a third or later accepted guess, evaluated with tally entries left by other
\* guesses, one of its letters marked PresentElsewhere
C14_Witness ==
    /\ GuessShown
    /\ nAccepted >= 3
    /\ DOMAIN target_letter_count \ Elements(line.word) # {}
    /\ \E i \in Positions : MarkAt(i) = CorrectLetter

---------------------------------------------------------------------------
(* The end of the game.                                                    *)

\* a guess equal to the target, or the last allowed guess, has been accepted
Decided == nMatched >= 1 \/ nAccepted = guess_tries

GameOver == pc = "done"

\* C15: at most guess_tries guesses are accepted; once the game is decided no
\* prompt is written and no input is read or evaluated; the finished game
\* takes no step; and, the player not typing rejected lines for ever, a game
\* that has started comes to its end.
C15_Terminates ==
    /\ [](nAccepted <= guess_tries)
    /\ [](Decided =>
            /\ pc \in {"loop", "final", "done"}
            /\ pc = "loop" => ~(guesses < guess_tries))
    /\ [][Decided =>
            /\ pc' # "read"
            /\ nAccepted' = nAccepted
            /\ guesses' = guesses
            /\ result' = result
            /\ target_letter_count' = target_letter_count]_vars
    /\ [][~GameOver]_vars
    /\ [](pc = "loop" => <>GameOver)

\* the game is over, won before the last try
C15_Witness ==
    /\ GameOver
    /\ result = "Success"
    /\ nMatched = 1
    /\ nAccepted \in 2..(guess_tries - 1)

---------------------------------------------------------------------------
(* The guess that is evaluated.                                            *)

\* the positions read by the loops of main.rs:109-168: 0..input.chars().count()
LoopPositions(input) == 0..(Len(input) - 1)

\* C16: an evaluated guess is a word of the candidate list, so it has L
\* characters, all lowercase ASCII letters of one byte, and every position
\* the loops read is inside the bytes of the guess and of the target.
C16_EvaluatedGuessInList ==
    GuessShown =>
        /\ line.word \in Elements(possible_words)
        /\ IsLowerWord(line.word)
        /\ ByteLen(line.word) = guess_letters
        /\ LoopPositions(line.word) = Positions
        /\ \A i \in LoopPositions(line.word) :
              i < ByteLen(line.word) /\ i < ByteLen(target_word)
        /\ DOMAIN line.marks = 1..guess_letters

\* "click" was evaluated against another target; the player can type it with
\* the Kelvin sign, seven bytes before lowercasing
C16_Witness ==
    /\ GuessShown
    /\ line.word = click
    /\ target_word # click

---------------------------------------------------------------------------
(* The frame of a rejection.                                               *)

\* a line that fails one of the two checks of main.rs:95 and 102
IsRejected(raw) ==
    \/ ByteLen(Normalize(raw)) # guess_letters
    \/ Normalize(raw) \notin Elements(possible_words)

\* C17: reading a rejected line leaves the tally, the alphabet line, the
\* target, the word list and the result as they were, and the tries used as
\* they were before the prompt.
C17_RejectionChangesNothing ==
    [][\A raw \in InputPool :
          (IsRejected(raw) /\ ReadGuess(raw)) =>
              /\ target_letter_count' = target_letter_count
              /\ print_tried_letters(target_letter_count')
                    = print_tried_letters(target_letter_count)
              /\ target_word' = target_word
              /\ possible_words' = possible_words
              /\ result' = result
              /\ guesses' = guesses - 1
              /\ nAccepted' = nAccepted /\ nMatched' = nMatched
      ]_vars

\* a line was rejected after a guess had been accepted, and the letter 'm' is
\* neither in the target nor in the tally (the pool's "mamma" is never a word)
C17_Witness ==
    /\ line.msg \in {"length", "invalid"}
    /\ nAccepted >= 1
    /\ guesses = nAccepted
    /\ target_letter_count # EmptyMap
    /\ "m" \notin DOMAIN target_letter_count

---------------------------------------------------------------------------
(* The try counter.                                                        *)

AtPrompt == pc = "read"

AtLoopHead == pc = "loop"

\* C18: the number in the prompt is one more than the guesses accepted so far
\* and lies in 1..guess_tries; at the loop head the counter equals the guesses
\* accepted so far and lies in 0..guess_tries.
C18_TryCounter ==
    /\ AtPrompt =>
          /\ PromptShown = nAccepted + 1
          /\ PromptShown \in 1..guess_tries
    /\ AtLoopHead =>
          /\ guesses = nAccepted
          /\ guesses \in 0..guess_tries

\* the last prompt "(6/6)>" is shown again after a rejected line
C18_Witness ==
    /\ AtPrompt
    /\ PromptShown = guess_tries
    /\ line.msg \in {"length", "invalid"}

===========================================================================
